---------------------------- MODULE Spec2Model ----------------------------
(***************************************************************************)
(* A model of script.py: the video forensic pipeline.                      *)
(*                                                                         *)
(*   sha256_file      streamed SHA-256 of a file                           *)
(*   run_ffprobe      metadata probe (external tool)                       *)
(*   extract_frames   frame extraction through ffmpeg, sorted glob         *)
(*   index_frames     per-frame pHash + SHA-256, written as JSON           *)
(*   temporal_ssim    SSIM of consecutive frames, thresholding             *)
(*   forensic_pipeline  the sequencing of the above                        *)
(*                                                                         *)
(* Real-valued scores are kept in hundredths (0.60 is 60, 1.0 is 100).     *)
(* A frame file frames_dir/frame-%06d.jpg is the record                    *)
(* [dir |-> "frames", name |-> <the digits of the numeral, then Dot>].     *)
(* A digest is the sequence of chunks the hash object was updated with     *)
(* (SHA-256 taken as injective).                                           *)
(***************************************************************************)
EXTENDS Integers, Sequences, FiniteSets, TLC

\* ------------------------------------------------------------------ bounds
\* the longest source video, in frames; also the most frame files a
\* previous run may have left in the frames directory
MaxFrames == 3
\* the largest sampling stride tried
MaxSkip == 3

\* ------------------------------------------------------- program constants
\* threshold=0.60, in hundredths
DefaultThreshold == 60
\* the width of the numeral in "frame-%06d.jpg"
PadWidth == 6

\* ------------------------------------------------------------ small helpers
Range(s) == {s[i] : i \in 1..Len(s)}

Max2(a, b) == IF a >= b THEN a ELSE b

\* an optional value: <<>> is None, <<v>> is v
None == <<>>
Some(v) == <<v>>

\* the outcome of a call: it returned val, or raised exc
Return(v) == [kind |-> "return", exc |-> "", val |-> Some(v)]
Raise(e) == [kind |-> "raise", exc |-> e, val |-> None]
NoOutcome == [kind |-> "none", exc |-> "", val |-> None]

\* ------------------------------------------------------------- sha256_file
\* what can be at a path: nothing, a directory, another non-regular file,
\* or a regular file holding some chunks
\* (the files tried: empty, one chunk, two chunks)
FileContents == {<<>>, <<0>>, <<1, 0>>}

PathStates ==
    {[kind |-> k, data |-> <<>>] : k \in {"absent", "dir", "special"}}
    \cup {[kind |-> "file", data |-> d] : d \in FileContents}

\* what open() and f.read() may raise, and where: at = 0 is open(), at = j
\* is the j-th read (read Len(data)+1 is the one that returns b"")
NoFault == [at |-> 0, exc |-> "none"]
Faults(p) ==
    {NoFault} \cup
    IF p.kind = "file"
    THEN {[at |-> j, exc |-> e] : j \in 0..(Len(p.data) + 1),
                                  e \in {"PermissionError", "OSError", "FileNotFoundError"}}
    ELSE {}

\* h.hexdigest() of a hash object updated with the chunks of h
HexDigest(h) == [sha256 |-> h]

\* the with/for loop of lines 28-30 from read number j on, h the chunks
\* hashed so far: the exception that escapes it ("none" when it ends) and h
RECURSIVE ReadLoop(_, _, _, _)
ReadLoop(data, fault, j, h) ==
    IF fault.exc # "none" /\ fault.at = j THEN [exc |-> fault.exc, h |-> h]
    ELSE IF j > Len(data) THEN [exc |-> "none", h |-> h]
    ELSE ReadLoop(data, fault, j + 1, Append(h, data[j]))

\* the try block of lines 27-34: open, then the read loop
ReadFile(data, fault) ==
    IF fault.exc # "none" /\ fault.at = 0 THEN [exc |-> fault.exc, h |-> <<>>]
    ELSE ReadLoop(data, fault, 1, <<>>)

\* (a variant with the two except clauses in the other order)
MutHandleReadError(exc) == "RuntimeError"

\* the except clauses of lines 31-34, in the order they are tried
HandleReadError(exc) ==
    IF exc = "PermissionError" THEN "PermissionError" ELSE "RuntimeError"

Sha256File(p, fault) ==
    IF p.kind = "absent" THEN Raise("FileNotFoundError")
    ELSE IF p.kind # "file" THEN Raise("ValueError")
    ELSE LET r == ReadFile(p.data, fault) IN
         IF r.exc # "none" THEN Raise(HandleReadError(r.exc))
         ELSE Return(HexDigest(r.h))

\* ---------------------------------------------------------------- the disk
\* the character '.' of ".jpg": it sorts below every digit
Dot == -1

RECURSIVE Digits(_)
Digits(k) == IF k < 10 THEN <<k>> ELSE Append(Digits(k \div 10), k % 10)

\* "%0<w>d": pads with zeros on the left, never truncates
ZeroPad(d, w) == IF Len(d) >= w THEN d ELSE [i \in 1..(w - Len(d)) |-> 0] \o d

\* the varying part of "frame-%06d.jpg" % k: the numeral, then the dot
FrameName(k) == Append(ZeroPad(Digits(k), PadWidth), Dot)

\* os.path.join(out_dir, "frame-%06d.jpg") % k
FramePath(k) == [dir |-> "frames", name |-> FrameName(k)]

\* os.path.basename
Basename(p) == p.name

\* str.__lt__ on two file names: the order sorted() uses
RECURSIVE LexLess(_, _)
LexLess(a, b) ==
    IF b = <<>> THEN FALSE
    ELSE IF a = <<>> THEN TRUE
    ELSE IF Head(a) # Head(b) THEN Head(a) < Head(b)
    ELSE LexLess(Tail(a), Tail(b))

\* sorted() of a set of paths
RECURSIVE SortedPaths(_)
SortedPaths(S) ==
    IF S = {} THEN <<>>
    ELSE LET lo == CHOOSE p \in S : \A q \in S \ {p} : LexLess(p.name, q.name)
         IN <<lo>> \o SortedPaths(S \ {lo})

\* the longest source video given to extract_frames on its own
MaxSource == 9

\* the numerals of the frame files the model follows
FileNums == 1..Max2(MaxSource, MaxFrames)

\* what a frame file holds: frame idx of the video of this run ("cur") or
\* of the video of an earlier run ("prev"); NoFile when there is no file
NoFile == [video |-> "none", idx |-> 0 - 1]
Image(v, i) == [video |-> v, idx |-> i]

\* a document of output_root: who wrote it, and what
NoDoc == [by |-> "nobody", body |-> None]
PreviousDoc == [by |-> "previous", body |-> None]
Written(body) == [by |-> "run", body |-> Some(body)]

\* output_root after an earlier run with cleanup=False that extracted
\* `left` frames (Fresh: output_root does not exist yet)
Fresh ==
    [root |-> FALSE,
     frames |-> [exists |-> FALSE, files |-> [k \in FileNums |-> NoFile]],
     index |-> NoDoc, temporal |-> NoDoc, report |-> NoDoc]
AfterEarlierRun(left) ==
    [root |-> TRUE,
     frames |-> [exists |-> TRUE,
                 files |-> [k \in FileNums |->
                              IF k <= left THEN Image("prev", k - 1) ELSE NoFile]],
     index |-> PreviousDoc, temporal |-> PreviousDoc, report |-> PreviousDoc]

\* ---------------------------------------------------------- extract_frames
\* the source frames ffmpeg passes to the image muxer, in order: all of
\* them, or with -vf select=not(mod(n\,skip)) those with n % skip = 0
RECURSIVE Selected(_, _, _)
Selected(nframes, skip, n) ==
    IF n >= nframes THEN <<>>
    ELSE IF skip > 1 /\ n % skip # 0 THEN Selected(nframes, skip, n + 1)
    ELSE <<n>> \o Selected(nframes, skip, n + 1)

\* lines 53-59: which command line is built
UsesSelect(skip) == skip # 0 /\ skip > 1

\* the ways ffmpeg can end on a video of nframes frames: rc = 0 after
\* writing every selected frame, or rc # 0 after writing some of them
FfmpegRuns(nframes, skip) ==
    LET m == Len(Selected(nframes, IF UsesSelect(skip) THEN skip ELSE 0, 0)) IN
    {[rc |-> 0, written |-> m]} \cup {[rc |-> 1, written |-> w] : w \in 0..m}

\* ffmpeg -y: output frame k goes to frame-%06d.jpg % k, k from 1,
\* overwriting; every other file of the directory is left as it is
Ffmpeg(files, nframes, skip, run) ==
    LET sel == Selected(nframes, IF UsesSelect(skip) THEN skip ELSE 0, 0) IN
    [k \in FileNums |-> IF k <= run.written THEN Image("cur", sel[k]) ELSE files[k]]

\* glob.glob(os.path.join(out_dir, "frame-*.jpg"))
Glob(files) == {FramePath(k) : k \in {j \in FileNums : files[j] # NoFile}}

\* extract_frames(video_path, out_dir, skip) on disk d: the disk after it
\* and its outcome
ExtractFrames(d, nframes, skip, run) ==
    LET files == Ffmpeg(d.frames.files, nframes, skip, run)
        after == [d EXCEPT !.root = TRUE,
                           !.frames = [exists |-> TRUE, files |-> files]]
    IN  IF run.rc # 0 THEN [disk |-> after, out |-> Raise("RuntimeError")]
        ELSE [disk |-> after, out |-> Return(SortedPaths(Glob(files)))]

\* ------------------------------------------------------------ index_frames
\* what one pass of the loop of lines 69-75 meets at a frame file:
\*   pil   - str(imagehash.phash(Image.open(f))): it raises, or gives a
\*           non-empty hexadecimal string
\*   p, fault - what sha256_file finds at the path
PilOutcomes == {[exc |-> TRUE, str |-> ""], [exc |-> FALSE, str |-> "c3a5"]}

FrameReads ==
    {[p |-> [kind |-> "file", data |-> <<1>>], fault |-> NoFault],
     [p |-> [kind |-> "absent", data |-> <<>>], fault |-> NoFault],
     [p |-> [kind |-> "file", data |-> <<0>>],
      fault |-> [at |-> 0, exc |-> "PermissionError"]],
     [p |-> [kind |-> "file", data |-> <<1>>],
      fault |-> [at |-> 1, exc |-> "OSError"]]}

FrameMeets == {[pil |-> o, p |-> r.p, fault |-> r.fault] : o \in PilOutcomes, r \in FrameReads}

\* lines 70-73: the fingerprint, "" when anything was raised
PHash(pil) == IF pil.exc THEN "" ELSE pil.str

\* (a variant that leaves out a frame whose fingerprint failed)
RECURSIVE MutIndexLoop(_, _, _, _)
MutIndexLoop(frame_files, meets, i, index) ==
    IF i > Len(frame_files) THEN Return(index)
    ELSE LET f == frame_files[i]
             h == Sha256File(meets[i].p, meets[i].fault)
         IN  IF meets[i].pil.exc
             THEN MutIndexLoop(frame_files, meets, i + 1, index)
             ELSE IF h.kind = "raise" THEN h
             ELSE MutIndexLoop(frame_files, meets, i + 1,
                               Append(index, [frame |-> Basename(f), path |-> f,
                                              phash |-> meets[i].pil.str,
                                              sha256 |-> h.val[1]]))

\* the loop of lines 69-75 from position i on, index the entries so far:
\* the index, or the exception sha256_file raised
RECURSIVE IndexLoop(_, _, _, _)
IndexLoop(frame_files, meets, i, index) ==
    IF i > Len(frame_files) THEN Return(index)
    ELSE LET f == frame_files[i]
             ph == PHash(meets[i].pil)
             h == Sha256File(meets[i].p, meets[i].fault)
         IN  IF h.kind = "raise" THEN h
             ELSE IndexLoop(frame_files, meets, i + 1,
                            Append(index, [frame |-> Basename(f), path |-> f,
                                           phash |-> ph, sha256 |-> h.val[1]]))

\* index_frames(frame_files, out_csv_path), doc the document at
\* out_csv_path before the call: the outcome, and the document after
IndexFrames(frame_files, meets, doc) ==
    LET r == IndexLoop(frame_files, meets, 1, <<>>) IN
    IF r.kind = "raise" THEN [out |-> r, doc |-> doc]
    ELSE [out |-> r, doc |-> Written(r.val[1])]

\* ----------------------------------------------------------- temporal_ssim
\* scores in hundredths; SSIM lies in [-1, 1]
Scores == {0 - 50, 0, 59, 60, 100}

\* what ssim(a, b) does on one pair: it raises, or gives a score
SsimOutcomes == {[exc |-> TRUE, s |-> 0]} \cup {[exc |-> FALSE, s |-> v] : v \in Scores}

\* (a variant that takes a failed computation for a perfect match)
MutPairScore(o) == IF o.exc THEN 100 ELSE o.s

\* lines 90-93: the score of the pair
PairScore(o) == IF o.exc THEN 0 ELSE o.s

\* (a variant that flags a score equal to the threshold)
MutFlagged(s, threshold) == s <= threshold

\* line 97: is the pair flagged
Flagged(s, threshold) == s < threshold

\* (a variant that tests the first frame only)
MutSkipPair(a, b) == a = FALSE

\* line 88: is the pair skipped, a and b the results of cv2.imread
SkipPair(a, b) == a = FALSE \/ b = FALSE

\* the loop of lines 85-98 from pair i on (frames i and i+1, from 1):
\*   readable[j] - cv2.imread of frame_files[j] is not None
\*   ssim[i]     - what ssim does on pair i
RECURSIVE SsimLoop(_, _, _, _, _, _, _)
SsimLoop(frame_files, threshold, readable, ssim, i, scores, anomalies) ==
    IF i > Len(frame_files) - 1 THEN [scores |-> scores, anomalies |-> anomalies]
    ELSE IF SkipPair(readable[i], readable[i + 1])
         THEN SsimLoop(frame_files, threshold, readable, ssim, i + 1, scores, anomalies)
    ELSE LET s == PairScore(ssim[i])
             item == [frame |-> Basename(frame_files[i]),
                      next_frame |-> Basename(frame_files[i + 1]),
                      ssim |-> s]
         IN  SsimLoop(frame_files, threshold, readable, ssim, i + 1,
                      Append(scores, item),
                      IF Flagged(s, threshold) THEN Append(anomalies, item)
                                               ELSE anomalies)

TemporalSsim(frame_files, threshold, readable, ssim) ==
    SsimLoop(frame_files, threshold, readable, ssim, 1, <<>>, <<>>)

\* what ssim does on the n-1 pairs of n frames, given which frames cv2
\* reads: NotCalled on a pair with an unreadable frame
NotCalled == [exc |-> FALSE, s |-> 0 - 999]
SsimRuns(n, readable) ==
    {f \in [1..(n - 1) -> SsimOutcomes \cup {NotCalled}] :
        \A i \in 1..(n - 1) : (f[i] = NotCalled) <=> ~(readable[i] /\ readable[i + 1])}

\* -------------------------------------------- run_ffprobe, the HTML report
\* the ways ffprobe can end: JSON on stdout, a nonzero return code, output
\* that is not JSON, or no ffprobe to run
ProbeRuns == {"json", "nonzero", "garbage", "missing"}

\* a JSON object, by its keys ({} is the empty set)
RunFfprobe(probe) ==
    IF probe = "missing" THEN Raise("FileNotFoundError")
    ELSE IF probe = "nonzero" THEN Raise("RuntimeError")
    ELSE IF probe = "garbage" THEN Raise("JSONDecodeError")
    ELSE Return({"format", "streams"})

\* index[:20]
IndexShown == 20

Prefix(seq, n) == SubSeq(seq, 1, IF Len(seq) < n THEN Len(seq) ELSE n)

\* what render_html_report writes to out_html: the values it interpolates
RenderHtmlReport(sha, metadata, index, anomalies) ==
    [sha |-> sha, metadata |-> metadata,
     anomalies |-> anomalies, index |-> Prefix(index, IndexShown)]

\* --------------------------------------------------------------- the state
VARIABLES
    pc,           \* where the call is: "idle" before it, then the stage of
                  \* forensic_pipeline, "returned" or "raised" at its end
    call,         \* the function called and its arguments
    env,          \* what the files and the external tools did in the
                  \* stage that ran last
    ret,          \* the outcome of the call
    video,        \* what is at video_path, and the frames it decodes to
    disk,         \* output_root
    calls,        \* forensic_pipeline: the functions it has called, in order
    stdout,       \* forensic_pipeline: the last diagnostic printed
    sha, meta, frame_files, index, scores, anomalies
                  \* forensic_pipeline: its locals (None while unassigned)

vars == <<pc, call, env, ret, video, disk, calls, stdout,
          sha, meta, frame_files, index, scores, anomalies>>

locals == <<sha, meta, frame_files, index, scores, anomalies>>

\* the longest video given to forensic_pipeline
MaxPipeFrames == 2

Call(fn, picked, skip, cleanup, threshold, files) ==
    [fn |-> fn, picked |-> picked, skip |-> skip, cleanup |-> cleanup,
     threshold |-> threshold, frame_files |-> files]

NoEnv ==
    [fault |-> NoFault, probe |-> "none", run |-> [rc |-> 0, written |-> 0],
     meets |-> <<>>, readable |-> <<>>, ssim |-> <<>>, rmtree |-> "none"]

NoVideo == [kind |-> "absent", data |-> <<>>, nframes |-> 0]

\* the frame lists given to index_frames and temporal_ssim on their own:
\* frame-000001.jpg .. frame-00000n.jpg, in that order or reversed
Ascending(n) == [i \in 1..n |-> FramePath(i)]
Reversed(seq) == [i \in 1..Len(seq) |-> seq[Len(seq) + 1 - i]]
FrameLists == UNION {{Ascending(n), Reversed(Ascending(n))} : n \in 0..MaxFrames}

Thresholds == Scores

Skips == 0..MaxSkip

\* the strides given to forensic_pipeline: every frame, and a sparse one
PipelineSkips == {0, MaxSkip}

\* the state at the call of sha256_file(path)
InitSha256File ==
    /\ call = Call("sha256_file", TRUE, 0, FALSE, DefaultThreshold, <<>>)
    /\ \E p \in PathStates : video = [kind |-> p.kind, data |-> p.data, nframes |-> 0]
    /\ disk = Fresh

\* the state at the call of extract_frames(video_path, out_dir, skip)
InitExtractFrames ==
    /\ \E skip \in Skips :
          call = Call("extract_frames", TRUE, skip, FALSE, DefaultThreshold, <<>>)
    /\ \E n \in 0..MaxSource : video = [kind |-> "file", data |-> <<>>, nframes |-> n]
    /\ disk \in {Fresh} \cup {AfterEarlierRun(left) : left \in 0..MaxSource}

\* the state at the call of index_frames(frame_files, out_csv_path)
InitIndexFrames ==
    /\ \E ff \in FrameLists :
          call = Call("index_frames", TRUE, 0, FALSE, DefaultThreshold, ff)
    /\ video = NoVideo
    /\ disk \in {Fresh, AfterEarlierRun(0)}

\* the state at the call of temporal_ssim(frame_files, threshold)
InitTemporalSsim ==
    /\ \E ff \in FrameLists, t \in Thresholds :
          call = Call("temporal_ssim", TRUE, 0, FALSE, t, ff)
    /\ video = NoVideo
    /\ disk = Fresh

\* the state at the call of forensic_pipeline(video_path, skip, output_root,
\* cleanup); picked: a path was given, or chosen in the file dialog
InitForensicPipeline ==
    /\ \E picked \in BOOLEAN, skip \in PipelineSkips, cleanup \in BOOLEAN :
          call = Call("forensic_pipeline", picked, skip, cleanup, DefaultThreshold, <<>>)
    /\ \E p \in PathStates, n \in 0..MaxPipeFrames :
          video = [kind |-> p.kind, data |-> p.data,
                   nframes |-> IF p.kind = "file" THEN n ELSE 0]
    /\ disk \in {Fresh, AfterEarlierRun(0), AfterEarlierRun(MaxPipeFrames)}

Init ==
    /\ pc = "idle"
    /\ env = NoEnv
    /\ ret = NoOutcome
    /\ calls = <<>>
    /\ stdout = ""
    /\ sha = None /\ meta = None /\ frame_files = None
    /\ index = None /\ scores = None /\ anomalies = None
    /\ \/ InitSha256File
       \/ InitExtractFrames
       \/ InitIndexFrames
       \/ InitTemporalSsim
       \/ InitForensicPipeline

\* ------------------------------------------- the functions, called directly
CallSha256File ==
    /\ pc = "idle" /\ call.fn = "sha256_file"
    /\ \E fault \in Faults(video) :
          LET r == Sha256File(video, fault) IN
          /\ env' = [NoEnv EXCEPT !.fault = fault]
          /\ ret' = r
          /\ pc' = IF r.kind = "raise" THEN "raised" ELSE "returned"
    /\ UNCHANGED <<call, video, disk, calls, stdout, locals>>

CallExtractFrames ==
    /\ pc = "idle" /\ call.fn = "extract_frames"
    /\ \E run \in FfmpegRuns(video.nframes, call.skip) :
          LET r == ExtractFrames(disk, video.nframes, call.skip, run) IN
          /\ env' = [NoEnv EXCEPT !.run = run]
          /\ disk' = r.disk
          /\ ret' = r.out
          /\ pc' = IF r.out.kind = "raise" THEN "raised" ELSE "returned"
    /\ UNCHANGED <<call, video, calls, stdout, locals>>

CallIndexFrames ==
    /\ pc = "idle" /\ call.fn = "index_frames"
    /\ \E meets \in [1..Len(call.frame_files) -> FrameMeets] :
          LET r == IndexFrames(call.frame_files, meets, disk.index) IN
          /\ env' = [NoEnv EXCEPT !.meets = meets]
          /\ disk' = [disk EXCEPT !.index = r.doc]
          /\ ret' = r.out
          /\ pc' = IF r.out.kind = "raise" THEN "raised" ELSE "returned"
    /\ UNCHANGED <<call, video, calls, stdout, locals>>

CallTemporalSsim ==
    /\ pc = "idle" /\ call.fn = "temporal_ssim"
    /\ \E readable \in [1..Len(call.frame_files) -> BOOLEAN] :
       \E ssim \in SsimRuns(Len(call.frame_files), readable) :
          /\ env' = [NoEnv EXCEPT !.readable = readable, !.ssim = ssim]
          /\ ret' = Return(TemporalSsim(call.frame_files, call.threshold, readable, ssim))
          /\ pc' = "returned"
    /\ UNCHANGED <<call, video, disk, calls, stdout, locals>>

\* -------------------------------------------------------- forensic_pipeline
\* lines 158-179: the file dialog, the checks of video_path, output_root
Validate ==
    /\ pc = "idle" /\ call.fn = "forensic_pipeline"
    /\ IF ~call.picked
       THEN /\ stdout' = "No file selected. Exiting."
            /\ pc' = "returned" /\ ret' = Return("None")
            /\ disk' = disk
       ELSE IF video.kind = "absent"
       THEN /\ stdout' = "ERROR: Video file not found"
            /\ pc' = "returned" /\ ret' = Return("None")
            /\ disk' = disk
       ELSE IF video.kind # "file"
       THEN /\ stdout' = "ERROR: Path is not a file"
            /\ pc' = "returned" /\ ret' = Return("None")
            /\ disk' = disk
       ELSE /\ stdout' = "Computing SHA-256..."
            /\ pc' = "hash" /\ ret' = ret
            /\ disk' = [disk EXCEPT !.root = TRUE]
    /\ UNCHANGED <<call, env, video, calls, locals>>

\* lines 182-188
HashVideo ==
    /\ pc = "hash"
    /\ \E fault \in Faults(video) :
          LET r == Sha256File(video, fault) IN
          /\ env' = [NoEnv EXCEPT !.fault = fault]
          /\ calls' = Append(calls, "sha256_file")
          /\ IF r.kind = "raise"
             THEN /\ stdout' = "ERROR: Failed to compute SHA-256"
                  /\ pc' = "returned" /\ ret' = Return("None")
                  /\ sha' = sha
             ELSE /\ stdout' = "Extracting ffprobe metadata..."
                  /\ pc' = "probe" /\ ret' = ret
                  /\ sha' = Some(r.val[1])
    /\ UNCHANGED <<call, video, disk, meta, frame_files, index, scores, anomalies>>

\* (a variant in which a failed probe ends the run)
MutProbe ==
    /\ pc = "probe"
    /\ \E probe \in ProbeRuns :
          LET r == RunFfprobe(probe) IN
          /\ env' = [NoEnv EXCEPT !.probe = probe]
          /\ calls' = Append(calls, "run_ffprobe")
          /\ IF r.kind = "raise"
             THEN /\ stdout' = "ffprobe error:"
                  /\ pc' = "returned" /\ ret' = Return("None")
                  /\ meta' = meta
             ELSE /\ stdout' = "Extracting frames with ffmpeg (this may take a while)..."
                  /\ pc' = "extract" /\ ret' = ret
                  /\ meta' = Some(r.val[1])
    /\ UNCHANGED <<call, video, disk, sha, frame_files, index, scores, anomalies>>

\* lines 190-198
Probe ==
    /\ pc = "probe"
    /\ \E probe \in ProbeRuns :
          LET r == RunFfprobe(probe) IN
          /\ env' = [NoEnv EXCEPT !.probe = probe]
          /\ calls' = Append(calls, "run_ffprobe")
          /\ meta' = IF r.kind = "raise" THEN Some({}) ELSE Some(r.val[1])
    /\ stdout' = "Extracting frames with ffmpeg (this may take a while)..."
    /\ pc' = "extract"
    /\ UNCHANGED <<call, ret, video, disk, sha, frame_files, index, scores, anomalies>>

\* (a variant that goes on with no frames when ffmpeg failed)
MutExtract ==
    /\ pc = "extract"
    /\ \E run \in FfmpegRuns(video.nframes, call.skip) :
          LET r == ExtractFrames(disk, video.nframes, call.skip, run) IN
          /\ env' = [NoEnv EXCEPT !.run = run]
          /\ calls' = Append(calls, "extract_frames")
          /\ disk' = r.disk
          /\ frame_files' = IF r.out.kind = "raise" THEN Some(<<>>) ELSE Some(r.out.val[1])
    /\ stdout' = "Indexing frames (pHash + per-frame SHA256)..."
    /\ pc' = "index"
    /\ UNCHANGED <<call, ret, video, sha, meta, index, scores, anomalies>>

\* lines 199-208
Extract ==
    /\ pc = "extract"
    /\ \E run \in FfmpegRuns(video.nframes, call.skip) :
          LET r == ExtractFrames(disk, video.nframes, call.skip, run) IN
          /\ env' = [NoEnv EXCEPT !.run = run]
          /\ calls' = Append(calls, "extract_frames")
          /\ disk' = r.disk
          /\ IF r.out.kind = "raise"
             THEN /\ stdout' = "ffmpeg extraction failed:"
                  /\ pc' = "returned" /\ ret' = Return("None")
                  /\ frame_files' = frame_files
             ELSE /\ stdout' = "Indexing frames (pHash + per-frame SHA256)..."
                  /\ pc' = "index" /\ ret' = ret
                  /\ frame_files' = Some(r.out.val[1])
    /\ UNCHANGED <<call, video, sha, meta, index, scores, anomalies>>

\* (a variant that catches the exception of index_frames and goes on with
\* an empty index)
MutIndex ==
    /\ pc = "index"
    /\ \E meets \in [1..Len(frame_files[1]) -> FrameMeets] :
          LET r == IndexFrames(frame_files[1], meets, disk.index) IN
          /\ env' = [NoEnv EXCEPT !.meets = meets]
          /\ calls' = Append(calls, "index_frames")
          /\ disk' = [disk EXCEPT !.index = r.doc]
          /\ index' = IF r.out.kind = "raise" THEN Some(<<>>) ELSE Some(r.out.val[1])
    /\ stdout' = "Computing SSIM between consecutive frames..."
    /\ pc' = "temporal"
    /\ UNCHANGED <<call, ret, video, sha, meta, frame_files, scores, anomalies>>

\* lines 209-214; an exception of index_frames is caught nowhere
Index ==
    /\ pc = "index"
    /\ \E meets \in [1..Len(frame_files[1]) -> FrameMeets] :
          LET r == IndexFrames(frame_files[1], meets, disk.index) IN
          /\ env' = [NoEnv EXCEPT !.meets = meets]
          /\ calls' = Append(calls, "index_frames")
          /\ disk' = [disk EXCEPT !.index = r.doc]
          /\ IF r.out.kind = "raise"
             THEN /\ pc' = "raised" /\ ret' = r.out
                  /\ stdout' = stdout
                  /\ index' = index
             ELSE /\ stdout' = "Computing SSIM between consecutive frames..."
                  /\ pc' = "temporal" /\ ret' = ret
                  /\ index' = Some(r.out.val[1])
    /\ UNCHANGED <<call, video, sha, meta, frame_files, scores, anomalies>>

\* lines 215-221
Temporal ==
    /\ pc = "temporal"
    /\ \E readable \in [1..Len(frame_files[1]) -> BOOLEAN] :
       \E ssim \in SsimRuns(Len(frame_files[1]), readable) :
          LET r == TemporalSsim(frame_files[1], DefaultThreshold, readable, ssim) IN
          /\ env' = [NoEnv EXCEPT !.readable = readable, !.ssim = ssim]
          /\ calls' = Append(calls, "temporal_ssim")
          /\ scores' = Some(r.scores)
          /\ anomalies' = Some(r.anomalies)
          /\ disk' = [disk EXCEPT !.temporal = Written(r.scores)]
    /\ stdout' = "Rendering HTML report..."
    /\ pc' = "report"
    /\ UNCHANGED <<call, ret, video, sha, meta, frame_files, index>>

\* lines 222-225
Report ==
    /\ pc = "report"
    /\ env' = NoEnv
    /\ calls' = Append(calls, "render_html_report")
    /\ disk' = [disk EXCEPT !.report =
                   Written(RenderHtmlReport(sha[1], meta[1], index[1], anomalies[1]))]
    /\ stdout' = "Report written to"
    /\ pc' = "cleanup"
    /\ UNCHANGED <<call, ret, video, locals>>

\* (a variant that removes output_root instead of frames_dir)
MutRmtree(d, outcome) ==
    IF outcome = "removed" THEN Fresh ELSE d

\* shutil.rmtree(frames_dir, ignore_errors=True): the directory goes, or an
\* error is ignored and it stays
Rmtree(d, outcome) ==
    IF outcome = "removed"
    THEN [d EXCEPT !.frames = [exists |-> FALSE, files |-> [k \in FileNums |-> NoFile]]]
    ELSE d

\* lines 227-232
Cleanup ==
    /\ pc = "cleanup"
    /\ IF call.cleanup
       THEN \E outcome \in {"removed", "error ignored"} :
               /\ env' = [NoEnv EXCEPT !.rmtree = outcome]
               /\ calls' = Append(calls, "rmtree")
               /\ disk' = Rmtree(disk, outcome)
       ELSE UNCHANGED <<env, calls, disk>>
    /\ stdout' = "Pipeline finished."
    /\ pc' = "returned" /\ ret' = Return("None")
    /\ UNCHANGED <<call, video, locals>>

Next ==
    \/ CallSha256File
    \/ CallExtractFrames
    \/ CallIndexFrames
    \/ CallTemporalSsim
    \/ Validate
    \/ HashVideo
    \/ Probe
    \/ Extract
    \/ Index
    \/ Temporal
    \/ Report
    \/ Cleanup

Spec == Init /\ [][Next]_vars

\* ------------------------------------------------------------ sha256_file
\* C9: sha256_file raises FileNotFoundError for a path that does not exist,
\* ValueError for a path that exists and is no regular file, PermissionError
\* when open or read raises PermissionError, RuntimeError when they raise
\* anything else; it returns only when every read succeeded, and then the
\* digest of the whole content.
C9_HashErrors ==
    (call.fn = "sha256_file" /\ pc # "idle") =>
        /\ video.kind = "absent" => ret = Raise("FileNotFoundError")
        /\ video.kind \in {"dir", "special"} => ret = Raise("ValueError")
        /\ (video.kind = "file" /\ env.fault.exc = "PermissionError")
              => ret = Raise("PermissionError")
        /\ (video.kind = "file" /\ env.fault.exc \in {"OSError", "FileNotFoundError"})
              => ret = Raise("RuntimeError")
        /\ ret.kind = "return"
              => /\ video.kind = "file"
                 /\ env.fault.exc = "none"
                 /\ ret.val[1] = HexDigest(video.data)

\* a read fails in the middle of a two-chunk file
C9_Witness ==
    /\ call.fn = "sha256_file" /\ pc = "raised"
    /\ Len(video.data) = 2 /\ env.fault = [at |-> 2, exc |-> "OSError"]
    /\ ret.exc = "RuntimeError"

\* ----------------------------------------------------------- temporal_ssim
\* the calls of temporal_ssim whose result the state holds: the function
\* called on its own, or by forensic_pipeline
SsimDirect == call.fn = "temporal_ssim" /\ pc = "returned"
SsimDone == SsimDirect \/ (call.fn = "forensic_pipeline" /\ scores # None)
\* ... and those whose reads and ssim outcomes env still holds
SsimJustRan == SsimDirect \/ (call.fn = "forensic_pipeline" /\ pc = "report")
TsFrames == IF SsimDirect THEN call.frame_files ELSE frame_files[1]
TsThreshold == IF SsimDirect THEN call.threshold ELSE DefaultThreshold
TsScores == IF SsimDirect THEN ret.val[1].scores ELSE scores[1]
TsAnomalies == IF SsimDirect THEN ret.val[1].anomalies ELSE anomalies[1]

\* C1: a record is in anomalies iff it is in scores with a score strictly
\* below the threshold (a score equal to the threshold is no anomaly), and
\* anomalies is the subsequence of those records of scores, in order.
C1_AnomaliesAreScoresBelow ==
    SsimDone =>
        LET Below(r) == r.ssim < TsThreshold IN
        /\ \A r \in Range(TsAnomalies) : r \in Range(TsScores) /\ r.ssim < TsThreshold
        /\ \A r \in Range(TsScores) : r.ssim < TsThreshold => r \in Range(TsAnomalies)
        /\ \A r \in Range(TsScores) : r.ssim = TsThreshold => r \notin Range(TsAnomalies)
        /\ TsAnomalies = SelectSeq(TsScores, Below)

\* two records, one just below the threshold and one on it
C1_Witness ==
    /\ SsimDirect /\ call.threshold = DefaultThreshold
    /\ Len(TsScores) = 2 /\ Len(TsAnomalies) = 1
    /\ \E r \in Range(TsScores) : r.ssim = DefaultThreshold
    /\ \E r \in Range(TsAnomalies) : r.ssim = 59

\* the pairs whose frames both decode and whose ssim raised, and the record
\* of pair i
FailedPairs ==
    {i \in 1..(Len(TsFrames) - 1) :
        env.readable[i] /\ env.readable[i + 1] /\ env.ssim[i].exc}
RecordOf(i, s) ==
    [frame |-> Basename(TsFrames[i]), next_frame |-> Basename(TsFrames[i + 1]),
     ssim |-> s]

\* C2, as stated: every pair whose frames decode and whose ssim computation
\* fails gets a record of score 0 that is an anomaly, whatever the threshold.
C2_FailureAlwaysFlagged ==
    SsimJustRan =>
        \A i \in FailedPairs :
            RecordOf(i, 0) \in Range(TsScores) /\ RecordOf(i, 0) \in Range(TsAnomalies)

\* C2, amended: such a pair gets a record of score 0, and the record is an
\* anomaly exactly when the threshold is above 0 (so under the default 0.60,
\* and in forensic_pipeline, always).
C2_FailureFlaggedAboveZero ==
    SsimJustRan =>
        \A i \in FailedPairs :
            /\ RecordOf(i, 0) \in Range(TsScores)
            /\ \A r \in Range(TsScores) :
                  (r.frame = Basename(TsFrames[i]) /\ r.next_frame = Basename(TsFrames[i + 1]))
                     => r.ssim = 0
            /\ RecordOf(i, 0) \in Range(TsAnomalies) <=> TsThreshold > 0

\* under the default threshold a failed pair is flagged next to a pair that
\* scored 1.0
C2_Witness ==
    /\ SsimDirect /\ call.threshold = DefaultThreshold
    /\ Len(call.frame_files) = 3
    /\ env.ssim[1].exc /\ env.ssim[2] = [exc |-> FALSE, s |-> 100]
    /\ TsAnomalies = <<RecordOf(1, 0)>>

\* the pairs that are not skipped, in increasing order
KeptPairs ==
    LET Kept(i) == env.readable[i] /\ env.readable[i + 1] IN
    SelectSeq([i \in 1..(Len(TsFrames) - 1) |-> i], Kept)

\* what C3 says of the records themselves: one per pair that is not
\* skipped, naming frame i and frame i+1, in increasing i
RecordsAreKeptPairs ==
    /\ Len(TsScores) = Len(KeptPairs)
    /\ \A j \in 1..Len(TsScores) :
          /\ TsScores[j].frame = Basename(TsFrames[KeptPairs[j]])
          /\ TsScores[j].next_frame = Basename(TsFrames[KeptPairs[j] + 1])

\* C3, as stated: for n frames, at most n-1 records, one per pair i whose
\* frames both decode, naming frames i and i+1, in increasing i; n-1
\* records exactly when no pair was skipped.
C3_RecordCount ==
    SsimJustRan =>
        /\ RecordsAreKeptPairs
        /\ Len(TsScores) <= Len(TsFrames) - 1
        /\ Len(TsScores) = Len(TsFrames) - 1
              <=> Len(KeptPairs) = Cardinality(1..(Len(TsFrames) - 1))

\* C3, amended: for n >= 1 frames as stated; for no frames at all there are
\* no records (0 records, not at most -1).
C3_RecordCountNonEmpty ==
    SsimJustRan =>
        /\ RecordsAreKeptPairs
        /\ Len(TsScores) <= Max2(Len(TsFrames) - 1, 0)
        /\ Len(TsFrames) >= 1 =>
              (Len(TsScores) = Len(TsFrames) - 1
                 <=> Len(KeptPairs) = Cardinality(1..(Len(TsFrames) - 1)))
        /\ Len(TsFrames) = 0 => TsScores = <<>>

\* three frames, the first unreadable: the one record is of frames 2 and 3
C3_Witness ==
    /\ SsimDirect /\ call.frame_files = Ascending(3)
    /\ env.readable = <<FALSE, TRUE, TRUE>>
    /\ Len(TsScores) = 1
    /\ TsScores[1].frame = FrameName(2) /\ TsScores[1].next_frame = FrameName(3)

\* ------------------------------------------------------------ index_frames
\* the calls of index_frames whose reads env holds: the function called on
\* its own, or by forensic_pipeline
IndexDirect == call.fn = "index_frames" /\ pc # "idle"
IndexJustRan ==
    \/ IndexDirect
    \/ call.fn = "forensic_pipeline" /\ pc = "temporal"
    \/ call.fn = "forensic_pipeline" /\ pc = "raised"
IxFrames == IF IndexDirect THEN call.frame_files ELSE frame_files[1]
IxOutcome ==
    IF IndexDirect THEN ret
    ELSE IF pc = "raised" THEN ret
    ELSE Return(index[1])
DigestOf(i) == Sha256File(env.meets[i].p, env.meets[i].fault)
DigestFailures == {i \in 1..Len(IxFrames) : DigestOf(i).kind = "raise"}

C6_DigestFailureIsFatal ==
    (IndexJustRan /\ DigestFailures # {}) =>
        LET first == CHOOSE i \in DigestFailures : \A j \in DigestFailures : i <= j IN
        /\ pc = "raised"
        /\ ret = DigestOf(first)
        /\ disk.index.by # "run"
        /\ call.fn = "forensic_pipeline" =>
              /\ index = None /\ scores = None /\ anomalies = None
              /\ calls[Len(calls)] = "index_frames"
              /\ disk.temporal.by # "run" /\ disk.report.by # "run"
              /\ ~ENABLED Next

\* in a pipeline run, the second frame has vanished after the first was read
C6_Witness ==
    /\ call.fn = "forensic_pipeline" /\ pc = "raised"
    /\ Len(frame_files[1]) = 2
    /\ DigestFailures = {2}
    /\ ret = Raise("FileNotFoundError")

\* ---------------------------------------------------------- extract_frames
ExtractDirect == call.fn = "extract_frames" /\ pc = "returned"

\* the frame file at a path
FileAt(p) == disk.frames.files[CHOOSE k \in FileNums : FramePath(k) = p]

\* ceil(a / b)
CeilDiv(a, b) == (a + b - 1) \div b

\* C8: extract_frames with stride 0 or 1 on N frames returns N paths, with
\* stride n > 1 ceil(N/n) paths, those of the source frames 0, n, 2n, ...;
\* the paths are sorted by file name, which is the temporal order.
C8_StrideSelectsFrames ==
    ExtractDirect =>
        LET paths == ret.val[1]
            n == IF call.skip > 1 THEN call.skip ELSE 1
        IN  /\ Len(paths) = CeilDiv(video.nframes, n)
            /\ \A j \in 1..Len(paths) : FileAt(paths[j]) = Image("cur", (j - 1) * n)
            /\ \A j \in 1..(Len(paths) - 1) : LexLess(paths[j].name, paths[j + 1].name)

\* -------------------------------------------------------- forensic_pipeline
Pipeline == call.fn = "forensic_pipeline" /\ call.picked
Called(f) == f \in Range(calls)

\* the fatal failures before indexing
VideoMissing == Pipeline /\ pc # "idle" /\ video.kind = "absent"
VideoNotRegular == Pipeline /\ pc # "idle" /\ video.kind \in {"dir", "special"}
HashFailed ==
    /\ Pipeline /\ calls = <<"sha256_file">>
    /\ Sha256File(video, env.fault).kind = "raise"
ExtractionFailed ==
    /\ Pipeline /\ calls # <<>> /\ calls[Len(calls)] = "extract_frames"
    /\ env.run.rc # 0

\* no document of output_root was written by this run
NothingWritten ==
    disk.index.by # "run" /\ disk.temporal.by # "run" /\ disk.report.by # "run"

\* no frame file of frames_dir was written by this run
NoFrameExtracted == \A k \in FileNums : disk.frames.files[k].video # "cur"

\* C5: when the video file is missing or no regular file, its hashing fails
\* or frame extraction fails, forensic_pipeline has ended, has called
\* neither index_frames nor temporal_ssim nor the report renderer, and has
\* written none of the three documents; when the file is missing it has not
\* called extract_frames either.
C5_FatalBeforeIndexing ==
    /\ (VideoMissing \/ VideoNotRegular \/ HashFailed \/ ExtractionFailed) =>
          /\ pc = "returned" /\ ~ENABLED Next
          /\ ~Called("index_frames") /\ ~Called("temporal_ssim")
          /\ ~Called("render_html_report")
          /\ frame_files = None /\ index = None /\ scores = None /\ anomalies = None
          /\ NothingWritten
    /\ VideoMissing => (calls = <<>> /\ NoFrameExtracted)
    /\ VideoNotRegular => (calls = <<>> /\ NoFrameExtracted)
    /\ HashFailed => calls = <<"sha256_file">>

\* ffmpeg fails after it wrote a frame: the run is over, nothing is indexed
C5_Witness ==
    /\ ExtractionFailed /\ pc = "returned"
    /\ env.run.rc # 0 /\ env.run.written > 0
    /\ stdout = "ffmpeg extraction failed:"

\* a run that completed
Completed == Pipeline /\ pc = "returned" /\ stdout = "Pipeline finished."

\* what the three documents hold once written
DocumentsWritten ==
    /\ disk.index = Written(index[1])
    /\ disk.temporal = Written(scores[1])
    /\ disk.report = Written(RenderHtmlReport(sha[1], meta[1], index[1], anomalies[1]))

\* C7, the states: when cleanup is about to start and when the run has
\* completed, the three documents are written; rmtree is called only when
\* cleanup was asked for, and after everything else.
C7_WrittenBeforeCleanup ==
    /\ (Pipeline /\ pc = "cleanup") => (DocumentsWritten /\ ~Called("rmtree"))
    /\ Completed =>
          /\ DocumentsWritten
          /\ Called("rmtree") <=> call.cleanup
          /\ calls = <<"sha256_file", "run_ffprobe", "extract_frames", "index_frames",
                       "temporal_ssim", "render_html_report">>
                     \o (IF call.cleanup THEN <<"rmtree">> ELSE <<>>)
    /\ (Pipeline /\ Called("rmtree")) => Completed

\* C7, the step: cleanup changes nothing of output_root but frames_dir, and
\* nothing at all when it was not asked for
C7_CleanupStep ==
    (Pipeline /\ pc = "cleanup") =>
        /\ disk'.index = disk.index /\ disk'.temporal = disk.temporal
        /\ disk'.report = disk.report /\ disk'.root = disk.root
        /\ ~call.cleanup => disk' = disk

\* C7: in every run that completes, the frame index, the temporal scores
\* and the report are written before cleanup starts; cleanup runs only when
\* asked for, removes only the frames directory and leaves the three
\* documents as they are.
C7_CleanupLeavesArtifacts == [](C7_WrittenBeforeCleanup) /\ [][C7_CleanupStep]_vars

\* a run with cleanup that removed the extracted frames
C7_Witness ==
    /\ Completed /\ call.cleanup /\ env.rmtree = "removed"
    /\ Len(frame_files[1]) = 2 /\ ~disk.frames.exists
    /\ DocumentsWritten

\* C10, the step: whatever ffprobe does, the probe stage goes on to frame
\* extraction, with an empty metadata document when the probe failed, and
\* changes nothing else
C10_ProbeStep ==
    (Pipeline /\ pc = "probe") =>
        /\ pc' = "extract"
        /\ meta' = IF env'.probe = "json" THEN Some({"format", "streams"}) ELSE Some({})
        /\ UNCHANGED <<ret, disk, sha, frame_files, index, scores, anomalies>>

\* C10, the states: a probe failure is never what ended a run, and after
\* one the report carries the empty metadata document; the stages after the
\* probe never read the metadata but to render it
C10_ProbeStates ==
    /\ (Pipeline /\ Called("run_ffprobe")) => meta # None
    /\ (Pipeline /\ pc = "returned" /\ Called("run_ffprobe")) =>
          (Completed \/ ExtractionFailed)
    /\ (Pipeline /\ disk.report.by = "run") => disk.report.body[1].metadata = meta[1]

\* C10: a failure of the metadata probe never ends forensic_pipeline: the
\* run takes an empty metadata document and goes on to extraction, indexing,
\* temporal analysis and the report as after a successful probe.
C10_ProbeFailureNonFatal == [](C10_ProbeStates) /\ [][C10_ProbeStep]_vars

\* a completed run whose probe failed: the report has empty metadata
C10_Witness ==
    /\ Completed /\ meta = Some({})
    /\ disk.report.body[1].metadata = {}
    /\ Len(index[1]) = 2 /\ Len(scores[1]) = 1

=============================================================================
